---------------------------- MODULE Spec2Model ----------------------------
(***************************************************************************)
(* A model of the XADF transformation engine of XMETHOD_Parser:            *)
(* translate_used_lines, element_to_dict and parse_xadf, as written in     *)
(* src/xadf_to_json_clean_v9.py (the extended variant, which also hoists   *)
(* PE_Spc_Number; src/xadf_summary_app_v3.py is the same code without it). *)
(*                                                                         *)
(* Python strings are sequences of one-character strings, so that strip,   *)
(* split, isdigit and int are computed and not assumed.  A Python value    *)
(* (None, str, dict, list) is a record with the same four fields whatever  *)
(* its kind; a dict is its sequence of items in insertion order.           *)
(***************************************************************************)
EXTENDS Integers, Sequences, FiniteSets, TLC

VARIABLES
  root,            \* parse_xadf: the document tree handed to parse_xadf
  pc,              \* parse_xadf: the statement group about to run
  data,            \* parse_xadf: the dict `data` that is returned
  element_lookup,  \* parse_xadf: element_lookup, position i+1 holds key i
  layers,          \* parse_xadf: the list `layers`
  idx,             \* parse_xadf: the running loop's position (one-based)
  err,             \* parse_xadf: the expression that raised, "" if none
  tree,            \* element_to_dict: the tree flattened
  flat,            \* element_to_dict: its result
  used,            \* translate_used_lines: the argument s
  names            \* translate_used_lines: its result

vars == <<root, pc, data, element_lookup, layers, idx, err, tree, flat, used, names>>

---------------------------------------------------------------------------
(* Python values *)

NoneV == [kind |-> "none", text |-> <<>>, items |-> <<>>, elems |-> <<>>]
StrV(t) == [kind |-> "str", text |-> t, items |-> <<>>, elems |-> <<>>]
DictV(its) == [kind |-> "dict", text |-> <<>>, items |-> its, elems |-> <<>>]
ListV(es) == [kind |-> "list", text |-> <<>>, items |-> <<>>, elems |-> es]

IsDict(v) == v.kind = "dict"

\* bool(v): None, "", {} and [] are false
Truthy(v) ==
  CASE v.kind = "none" -> FALSE
    [] v.kind = "str" -> v.text # <<>>
    [] v.kind = "dict" -> v.items # <<>>
    [] v.kind = "list" -> v.elems # <<>>

\* a dict's items: a sequence of [key, val] with distinct keys, in insertion order
HasKey(its, k) == \E i \in 1..Len(its) : its[i].key = k

KeyPos(its, k) == CHOOSE i \in 1..Len(its) : its[i].key = k

\* d.get(k, dflt)
Get(its, k, dflt) == IF HasKey(its, k) THEN its[KeyPos(its, k)].val ELSE dflt

\* d[k] = v: an existing key keeps its place and takes the new value
Put(its, k, v) ==
  IF HasKey(its, k)
  THEN [its EXCEPT ![KeyPos(its, k)] = [key |-> k, val |-> v]]
  ELSE Append(its, [key |-> k, val |-> v])

---------------------------------------------------------------------------
(* str methods *)

Whitespace == {" "}
Digits == {"0", "1", "2", "3", "4", "5", "6", "7", "8", "9"}

DigitValue ==
  ("0" :> 0) @@ ("1" :> 1) @@ ("2" :> 2) @@ ("3" :> 3) @@ ("4" :> 4) @@
  ("5" :> 5) @@ ("6" :> 6) @@ ("7" :> 7) @@ ("8" :> 8) @@ ("9" :> 9)

RECURSIVE LStrip(_)
LStrip(t) == IF t # <<>> /\ Head(t) \in Whitespace THEN LStrip(Tail(t)) ELSE t

RECURSIVE RStrip(_)
RStrip(t) ==
  IF t # <<>> /\ t[Len(t)] \in Whitespace THEN RStrip(SubSeq(t, 1, Len(t) - 1)) ELSE t

\* t.strip()
Strip(t) == RStrip(LStrip(t))

\* t.isdigit(), over ASCII text
IsDigit(t) == t # <<>> /\ \A i \in 1..Len(t) : t[i] \in Digits

RECURSIVE Decimal(_)
Decimal(t) == IF t = <<>> THEN 0 ELSE 10 * Decimal(SubSeq(t, 1, Len(t) - 1)) + DigitValue[t[Len(t)]]

\* int(t): surrounding whitespace and one sign are accepted; ok is FALSE for ValueError
PyInt(t) ==
  LET s == Strip(t)
      signed == s # <<>> /\ Head(s) \in {"+", "-"}
      body == IF signed THEN Tail(s) ELSE s
  IN IF IsDigit(body)
     THEN [ok |-> TRUE, val |-> IF signed /\ Head(s) = "-" THEN 0 - Decimal(body) ELSE Decimal(body)]
     ELSE [ok |-> FALSE, val |-> 0]

RECURSIVE SplitFrom(_, _, _, _)
SplitFrom(t, sep, cur, acc) ==
  IF t = <<>> THEN Append(acc, cur)
  ELSE IF Head(t) = sep THEN SplitFrom(Tail(t), sep, <<>>, Append(acc, cur))
  ELSE SplitFrom(Tail(t), sep, Append(cur, Head(t)), acc)

\* t.split(sep), sep one character
Split(t, sep) == SplitFrom(t, sep, <<>>, <<>>)

---------------------------------------------------------------------------
(* Code tables *)

ELEMENTS ==
  <<
    <<"H">>, <<"H","e">>, <<"L","i">>, <<"B","e">>, <<"B">>, <<"C">>, <<"N">>, <<"O">>, <<"F">>,
    <<"N","e">>, <<"N","a">>, <<"M","g">>, <<"A","l">>, <<"S","i">>, <<"P">>, <<"S">>,
    <<"C","l">>, <<"A","r">>, <<"K">>, <<"C","a">>, <<"S","c">>, <<"T","i">>, <<"V">>,
    <<"C","r">>, <<"M","n">>, <<"F","e">>, <<"C","o">>, <<"N","i">>, <<"C","u">>, <<"Z","n">>,
    <<"G","a">>, <<"G","e">>, <<"A","s">>, <<"S","e">>, <<"B","r">>, <<"K","r">>, <<"R","b">>,
    <<"S","r">>, <<"Y">>, <<"Z","r">>, <<"N","b">>, <<"M","o">>, <<"T","c">>, <<"R","u">>,
    <<"R","h">>, <<"P","d">>, <<"A","g">>, <<"C","d">>, <<"I","n">>, <<"S","n">>, <<"S","b">>,
    <<"T","e">>, <<"I">>, <<"X","e">>, <<"C","s">>, <<"B","a">>, <<"L","a">>, <<"C","e">>,
    <<"P","r">>, <<"N","d">>, <<"P","m">>, <<"S","m">>, <<"E","u">>, <<"G","d">>, <<"T","b">>,
    <<"D","y">>, <<"H","o">>, <<"E","r">>, <<"T","m">>, <<"Y","b">>, <<"L","u">>, <<"H","f">>,
    <<"T","a">>, <<"W">>, <<"R","e">>, <<"O","s">>, <<"I","r">>, <<"P","t">>, <<"A","u">>,
    <<"H","g">>, <<"T","l">>, <<"P","b">>, <<"B","i">>, <<"P","o">>, <<"A","t">>, <<"R","n">>,
    <<"F","r">>, <<"R","a">>, <<"A","c">>, <<"T","h">>, <<"P","a">>, <<"U">>
  >>

Placeholder == <<"?">>

\* a variant of ELEMENTS_get: the table read as if keyed from 0
ELEMENTS_get_FromZero(n) ==
  IF n + 1 \in 1..Len(ELEMENTS) THEN ELEMENTS[n + 1] ELSE Placeholder

\* ELEMENTS.get(n, "?"): the table is keyed from 1
ELEMENTS_get(n) == IF n \in 1..Len(ELEMENTS) THEN ELEMENTS[n] ELSE Placeholder

LINE_MAP ==
  (3 :> <<"K","_","a","l","p","h","a","1">>)
  @@ (4 :> <<"K","_","a","l","p","h","a","2">>)
  @@ (5 :> <<"K","_","b","e","t","a","2">>)
  @@ (6 :> <<"K","_","b","e","t","a","1">>)
  @@ (8 :> <<"K","_","b","e","t","a","3">>)
  @@ (9 :> <<"K","_","b","e","t","a","5">>)
  @@ (12 :> <<"L","_","a","l","p","h","a","1">>)
  @@ (14 :> <<"L","_","b","e","t","a","1">>)
  @@ (15 :> <<"L","_","b","e","t","a","2">>)
  @@ (17 :> <<"L","_","g","a","m","m","a","1">>)

\* f"Line{x}": the token as written, not the parsed number
LineName(x) == <<"L", "i", "n", "e">> \o x

\* LINE_MAP.get(int(x), f"Line{x}")
LINE_MAP_get(n, x) == IF n \in DOMAIN LINE_MAP THEN LINE_MAP[n] ELSE LineName(x)

ATMOSPHERE_MAP ==
  [code \in {<<"0">>, <<"1">>, <<"2">>} |->
     CASE code = <<"0">> -> <<"V","a","c","u","u","m">>
       [] code = <<"1">> -> <<"A","i","r">>
       [] code = <<"2">> -> <<"H","e","l","i","u","m">>]

---------------------------------------------------------------------------
(* translate_used_lines *)

\* a variant of Comprehension: a token int() rejects is left out and the rest kept
RECURSIVE ComprehensionPerToken(_, _, _)
ComprehensionPerToken(toks, i, acc) ==
  IF i > Len(toks) THEN [ok |-> TRUE, val |-> acc]
  ELSE IF Strip(toks[i]) = <<>> \/ ~PyInt(toks[i]).ok THEN ComprehensionPerToken(toks, i + 1, acc)
  ELSE ComprehensionPerToken(toks, i + 1,
         Append(acc, LINE_MAP_get(PyInt(toks[i]).val, toks[i])))

\* the list comprehension: blank tokens are filtered out, a token int() rejects
\* raises ValueError and ends the comprehension
RECURSIVE Comprehension(_, _, _)
Comprehension(toks, i, acc) ==
  IF i > Len(toks) THEN [ok |-> TRUE, val |-> acc]
  ELSE IF Strip(toks[i]) = <<>> THEN Comprehension(toks, i + 1, acc)
  ELSE LET n == PyInt(toks[i])
       IN IF ~n.ok THEN [ok |-> FALSE, val |-> <<>>]
          ELSE Comprehension(toks, i + 1, Append(acc, LINE_MAP_get(n.val, toks[i])))

\* s is a Python value; the result is the list's elements.  A truthy s that is
\* not a str has no split: AttributeError, caught by the bare except
translate_used_lines(s) ==
  IF ~Truthy(s) THEN <<>>
  ELSE IF s.kind # "str" THEN <<>>
  ELSE LET r == Comprehension(Split(s.text, ","), 1, <<>>)
       IN IF r.ok THEN r.val ELSE <<>>

---------------------------------------------------------------------------
(* xml.etree elements and element_to_dict *)

\* an Element: tag, the Type attribute ("" when it has none), text (<<>> when
\* c.text is None or ""), and the child elements in document order
Node(tag, type, text, kids) == [tag |-> tag, type |-> type, text |-> text, kids |-> kids]
Leaf(tag, text) == Node(tag, "", text, <<>>)
Rec(tag, kids) == Node(tag, "", <<>>, kids)
ClassInstance(type, kids) == Node("ClassInstance", type, <<>>, kids)

RECURSIVE element_to_dict(_)
RECURSIVE InsertSubs(_, _, _)
RECURSIVE InsertChildren(_, _, _)

\* element_to_dict(c) if len(c) else (c.text.strip() if c.text else None)
ChildValue(c) ==
  IF Len(c.kids) > 0 THEN DictV(element_to_dict(c))
  ELSE IF c.text # <<>> THEN StrV(Strip(c.text))
  ELSE NoneV

\* for sub in c: d[sub.tag] = element_to_dict(sub)
InsertSubs(subs, j, d) ==
  IF j > Len(subs) THEN d
  ELSE InsertSubs(subs, j + 1, Put(d, subs[j].tag, DictV(element_to_dict(subs[j]))))

\* for c in elem: ...
InsertChildren(kids, i, d) ==
  IF i > Len(kids) THEN d
  ELSE InsertChildren(kids, i + 1,
         IF kids[i].tag = "ClassInstance"
         THEN InsertSubs(kids[i].kids, 1, d)
         ELSE Put(d, kids[i].tag, ChildValue(kids[i])))

\* the items of the dict returned
element_to_dict(elem) == InsertChildren(elem.kids, 1, <<>>)

RECURSIVE Descendants(_)
RECURSIVE DescendantsOfKids(_, _)

DescendantsOfKids(kids, i) ==
  IF i > Len(kids) THEN <<>>
  ELSE <<kids[i]>> \o Descendants(kids[i]) \o DescendantsOfKids(kids, i + 1)

\* the proper descendants of n in document order
Descendants(n) == DescendantsOfKids(n.kids, 1)

\* n.findall(".//ClassInstance[@Type='<type>']")
findall(n, type) ==
  SelectSeq(Descendants(n), LAMBDA e : e.tag = "ClassInstance" /\ e.type = type)

---------------------------------------------------------------------------
(* parse_xadf, one operator per statement group *)

T_Info == "TXS2_XADFMgr_Info"
T_MParam == "TXS2_XADFMgr_MParam"
T_CalcParam == "TXS2_XADFMgr_CalcParam"
T_SingleElement == "TXS2_XADFMgr_SingleElement"
T_SingleLayer == "TXS2_XADFMgr_SingleLayer"

\* k.startswith("Element_"), over the tags the documents use
StartsWithElement_(k) == k \in {"Element_", "Element_0", "Element_1", "Element_2"}

\* `x and x.isdigit()`: "yes" or "no", or "raise" (a truthy x that is not a
\* str has no isdigit: AttributeError)
AndIsDigit(x) ==
  IF ~Truthy(x) THEN "no"
  ELSE IF x.kind # "str" THEN "raise"
  ELSE IF IsDigit(x.text) THEN "yes"
  ELSE "no"

\* the result of a statement group: err names the expression that raised
Ok(v) == [err |-> "", skip |-> FALSE, val |-> v]
Raise(e) == [err |-> e, skip |-> FALSE, val |-> NoneV]
Skip == [err |-> "", skip |-> TRUE, val |-> NoneV]

\* mdata after the Measurement parameters block, m the sequence of matches
MeasurementParameters(m) ==
  IF m = <<>> THEN Ok(DictV(<<>>))
  ELSE
    LET mdata == Get(element_to_dict(m[1]), "MParam", DictV(<<>>))
    IN IF ~IsDict(mdata) THEN Raise("mdata.get")
       ELSE
         LET tube_z == Get(mdata.items, "TubeZ", NoneV)
             td == AndIsDigit(tube_z)
             m1 == IF td = "yes"
                   THEN Put(mdata.items, "TubeElement", StrV(ELEMENTS_get(Decimal(tube_z.text))))
                   ELSE mdata.items
             atm == Get(m1, "Atmosphere", NoneV)
         IN IF td = "raise" THEN Raise("tube_z.isdigit")
            ELSE IF atm.kind \in {"dict", "list"} THEN Raise("atm in ATMOSPHERE_MAP")
            ELSE IF atm.kind = "str" /\ atm.text \in DOMAIN ATMOSPHERE_MAP
            THEN Ok(DictV(Put(m1, "AtmosphereName", StrV(ATMOSPHERE_MAP[atm.text]))))
            ELSE Ok(DictV(m1))

\* element_to_dict(calc).get("CalculationParameters", {})
CalculationParameters(calc) == Get(element_to_dict(calc), "CalculationParameters", DictV(<<>>))

\* the positions of se whose value is a dict holding key k
Carriers(se, k) == {i \in 1..Len(se) : IsDict(se[i].val) /\ HasKey(se[i].val.items, k)}

Min(S) == CHOOSE x \in S : \A y \in S : x <= y
Max(S) == CHOOSE x \in S : \A y \in S : x >= y

\* pe_num: the PE_Spc_Number of the first value carrying one (the loop breaks)
PeNum(se) ==
  IF Carriers(se, "PE_Spc_Number") = {} THEN NoneV
  ELSE Get(se[Min(Carriers(se, "PE_Spc_Number"))].val.items, "PE_Spc_Number", NoneV)

\* v["EmissionLines"] = translate_used_lines(v["UsedLines"]) for every value carrying UsedLines
TranslateLines(se) ==
  [i \in 1..Len(se) |->
     IF i \in Carriers(se, "UsedLines")
     THEN [key |-> se[i].key,
           val |-> DictV(Put(se[i].val.items, "EmissionLines",
                             ListV(translate_used_lines(Get(se[i].val.items, "UsedLines", NoneV)))))]
     ELSE se[i]]

\* se["PE_Spc_Number"] and v["PE_Spc_Number"] are one object: what
\* TranslateLines did to the hoisted value shows in the value it came from
ShareHoisted(before, after) ==
  IF Carriers(before, "PE_Spc_Number") = {} THEN after
  ELSE LET j == Min(Carriers(before, "PE_Spc_Number"))
       IN IF before[j].key = "PE_Spc_Number" \/ PeNum(before).kind = "none" THEN after
          ELSE [after EXCEPT ![j].val.items =
                  Put(@, "PE_Spc_Number", Get(after, "PE_Spc_Number", NoneV))]

\* se as stored in element_lookup for the matched subtree e
ElementEntry(e) ==
  LET ed == element_to_dict(e)
      se == IF ed # <<>> THEN ed[1].val ELSE DictV(<<>>)
  IN IF ~IsDict(se) THEN Raise("se.get")
     ELSE
       LET z == Get(se.items, "Z", NoneV)
           zd == AndIsDigit(z)
           s1 == IF zd = "yes"
                 THEN Put(se.items, "ElementSymbol", StrV(ELEMENTS_get(Decimal(z.text))))
                 ELSE se.items
           s2 == IF PeNum(s1).kind # "none" THEN Put(s1, "PE_Spc_Number", PeNum(s1)) ELSE s1
       IN IF zd = "raise" THEN Raise("z.isdigit")
          ELSE Ok(DictV(ShareHoisted(s1, TranslateLines(s2))))

\* a variant of lookup_get: the index read as a one-based position
lookup_get_OneBased(lookup, k) == IF k \in 1..Len(lookup) THEN lookup[k] ELSE NoneV

\* element_lookup.get(k): None for a key that is not there
lookup_get(lookup, k) == IF k + 1 \in 1..Len(lookup) THEN lookup[k + 1] ELSE NoneV

\* a variant of ScanLines: the loop breaks at the first value carrying EmissionLines
RECURSIVE ScanLinesBreak(_, _, _)
ScanLinesBreak(ei, i, lines) ==
  IF i > Len(ei) THEN lines
  ELSE IF IsDict(ei[i].val) /\ HasKey(ei[i].val.items, "EmissionLines")
  THEN Get(ei[i].val.items, "EmissionLines", NoneV)
  ELSE ScanLinesBreak(ei, i + 1, lines)

\* lines after `for sub in ei.values(): if ...: lines = sub["EmissionLines"]`
RECURSIVE ScanLines(_, _, _)
ScanLines(ei, i, lines) ==
  IF i > Len(ei) THEN lines
  ELSE ScanLines(ei, i + 1,
         IF IsDict(ei[i].val) /\ HasKey(ei[i].val.items, "EmissionLines")
         THEN Get(ei[i].val.items, "EmissionLines", NoneV)
         ELSE lines)

\* the dict appended to layer_info["Elements"] for the reference v
MergeRef(v, lookup) ==
  LET gi == Get(v.items, "GlobalElementIndex", NoneV)
      gd == AndIsDigit(gi)
      ei == IF gd = "yes" THEN lookup_get(lookup, Decimal(gi.text)) ELSE DictV(<<>>)
  IN IF gd = "raise" THEN Raise("gi.isdigit")
     ELSE IF ~IsDict(ei) THEN Raise("ei.get")
     ELSE Ok([Symbol |-> Get(ei.items, "ElementSymbol", StrV(Placeholder)),
              Conc |-> Get(v.items, "StartConcentration", StrV(Placeholder)),
              PE_Spc_Number |-> Get(ei.items, "PE_Spc_Number", StrV(Placeholder)),
              Lines |-> ScanLines(ei.items, 1, ListV(<<>>))])

\* for k, v in d.items(): ... ; the first reference that raises ends the loop
RECURSIVE MergeRefs(_, _, _, _)
MergeRefs(d, j, lookup, acc) ==
  IF j > Len(d) THEN [err |-> "", val |-> acc]
  ELSE IF StartsWithElement_(d[j].key) /\ IsDict(d[j].val)
  THEN LET r == MergeRef(d[j].val, lookup)
       IN IF r.err # "" THEN [err |-> r.err, val |-> acc]
          ELSE MergeRefs(d, j + 1, lookup, Append(acc, r.val))
  ELSE MergeRefs(d, j + 1, lookup, acc)

\* d.get("Density", {}).get("Default") if isinstance(d.get("Density"), dict) else d.get("Density")
Density(d) ==
  IF IsDict(Get(d, "Density", NoneV))
  THEN Get(Get(d, "Density", NoneV).items, "Default", NoneV)
  ELSE Get(d, "Density", NoneV)

\* a variant of LayerEntry: only a subtree whose flattening is empty is skipped
LayerEntrySkipsEmptyFlattening(lyr, i, lookup) ==
  LET L == element_to_dict(lyr)
      d == IF L # <<>> THEN L[1].val ELSE DictV(<<>>)
  IN IF L = <<>> THEN Skip
     ELSE IF ~IsDict(d) THEN Raise("d.get")
     ELSE LET refs == MergeRefs(d.items, 1, lookup, <<>>)
          IN IF refs.err # "" THEN Raise(refs.err)
             ELSE [err |-> "", skip |-> FALSE,
                   val |-> [Index |-> i,
                            Description |-> Get(d.items, "Description", NoneV),
                            Thickness_um |-> Get(d.items, "Thickness", NoneV),
                            Density_gcm3 |-> Density(d.items),
                            Elements |-> refs.val]]

\* layer_info for the i-th matched subtree lyr, or Skip for `continue`
LayerEntry(lyr, i, lookup) ==
  LET L == element_to_dict(lyr)
      d == IF L # <<>> THEN L[1].val ELSE DictV(<<>>)
  IN IF ~Truthy(d) THEN Skip
     ELSE IF ~IsDict(d) THEN Raise("d.get")
     ELSE LET refs == MergeRefs(d.items, 1, lookup, <<>>)
          IN IF refs.err # "" THEN Raise(refs.err)
             ELSE [err |-> "", skip |-> FALSE,
                   val |-> [Index |-> i,
                            Description |-> Get(d.items, "Description", NoneV),
                            Thickness_um |-> Get(d.items, "Thickness", NoneV),
                            Density_gcm3 |-> Density(d.items),
                            Elements |-> refs.val]]

---------------------------------------------------------------------------
(* The documents parse_xadf is run on *)

MaxElements == 2
MaxLayers == 2

\* the sequences over S of length at most n
SeqsUpTo(S, n) == UNION {[1..k -> S] : k \in 0..n}

SingleLine(tag, kids) == Rec(tag, kids)

\* SingleElement subtrees: H with one line record; U with two line records, the
\* first with a malformed UsedLines, the second carrying the PE_Spc_Number; one
\* without children; one whose Z is not a digit string
ElementH ==
  ClassInstance(T_SingleElement,
    <<Rec("Element", <<Leaf("Z", <<" ", "1">>),
                       SingleLine("SingleLine_0", <<Leaf("PE_Spc_Number", <<"5">>),
                                                    Leaf("UsedLines", <<"3", ",", "9">>)>>)>>)>>)
ElementU ==
  ClassInstance(T_SingleElement,
    <<Rec("Element", <<Leaf("Z", <<"9", "2">>),
                       SingleLine("SingleLine_0", <<Leaf("UsedLines", <<"x", ",", "3">>)>>),
                       SingleLine("SingleLine_1", <<Leaf("UsedLines", <<"9", "9">>),
                                                    Leaf("PE_Spc_Number", <<"7">>)>>)>>)>>)
ElementEmpty == ClassInstance(T_SingleElement, <<>>)
ElementNoZ ==
  ClassInstance(T_SingleElement,
    <<Rec("Element", <<Leaf("Z", <<"x">>),
                       SingleLine("SingleLine_0", <<Leaf("UsedLines", <<"3">>)>>)>>)>>)

ElementMenu == {ElementH, ElementU, ElementEmpty}

\* a layer record holding the given children besides its description
Layer(kids) ==
  ClassInstance(T_SingleLayer,
    <<Rec("Layer", <<Leaf("Description", <<"d">>), Leaf("Thickness", <<"0">>)>> \o kids)>>)

\* an element reference with the given GlobalElementIndex text
Ref(tag, gi, conc) ==
  Rec(tag, <<Leaf("GlobalElementIndex", gi), Leaf("StartConcentration", conc)>>)

\* layers: references "0" and "x"; a reference "01"; a reference without index,
\* a key Element_1 that is text, a reference "1" and a Density record; a
\* subtree without children; a subtree whose only child is empty
Layer0 ==
  Layer(<<Leaf("Density", <<"8">>), Ref("Element_0", <<"0">>, <<"5">>),
          Ref("Element_1", <<"x">>, <<>>)>>)
Layer1 == Layer(<<Ref("Element_0", <<"0", "1">>, <<"5">>)>>)
LayerTwo ==
  Layer(<<Rec("Density", <<Leaf("Default", <<"8">>)>>),
          Rec("Element_0", <<Leaf("StartConcentration", <<"5">>)>>),
          Leaf("Element_1", <<"1">>),
          Ref("Element_2", <<"1">>, <<"9">>)>>)
LayerEmpty == ClassInstance(T_SingleLayer, <<>>)
LayerNoBody == ClassInstance(T_SingleLayer, <<Leaf("Layer", <<>>)>>)

LayerMenu == {Layer0, Layer1, LayerTwo, LayerEmpty, LayerNoBody}

InfoSection == ClassInstance(T_Info, <<Rec("Info", <<Leaf("APLName", <<"s">>)>>)>>)

CalcSections ==
  { <<>>,
    <<ClassInstance(T_CalcParam, <<Rec("CalculationParameters", <<Leaf("Mode", <<"1">>)>>)>>)>>,
    <<ClassInstance(T_CalcParam, <<Rec("Other", <<Leaf("Mode", <<"1">>)>>)>>)>> }

TubeZFields ==
  { <<>> } \cup
  { <<Leaf("TubeZ", t)>> :
      t \in {<<"1">>, <<"9", "2">>, <<"0">>, <<"9", "3">>, <<"x">>, <<" ">>, <<>>} }

AtmosphereFields ==
  { <<>>, <<Leaf("Atmosphere", <<"1">>)>>, <<Leaf("Atmosphere", <<"5">>)>> }

MParamSections ==
  { <<>>,
    <<ClassInstance(T_MParam, <<>>)>>,
    <<ClassInstance(T_MParam, <<Rec("MParam", <<Leaf("TubeZ", <<"x">>),
                                                  Leaf("TubeElement", <<"R", "h">>)>>)>>)>> }
  \cup { <<ClassInstance(T_MParam, <<Rec("MParam", <<Leaf("HV", <<"5", "0">>)>> \o z \o a)>>)>> :
           z \in TubeZFields, a \in AtmosphereFields }

\* the sections sit at different depths of the document, as in a vendor file
Document(info, mparam, calc, elements, lyrs) ==
  Rec("XADF",
      <<Rec("Header", info \o mparam)>> \o calc \o
      <<ClassInstance("TXS2_XADFMgr_Elements", elements),
        Rec("Sample", <<ClassInstance("TXS2_XADFMgr_Layers", lyrs)>>)>>)

\* documents that vary the singleton sections
SectionDocuments ==
  { Document(info, mparam, calc, <<ElementH>>, <<Layer0>>) :
      info \in {<<>>, <<InfoSection>>}, mparam \in MParamSections, calc \in CalcSections }

\* documents that vary the registry and the layers
RegistryDocuments ==
  { Document(<<InfoSection>>, <<>>, <<>>, elements, lyrs) :
      elements \in SeqsUpTo(ElementMenu, MaxElements), lyrs \in SeqsUpTo(LayerMenu, MaxLayers) }

\* documents with one field of another shape than the vendor's: a record where
\* text is expected, text where a record is expected
IrregularMParams ==
  { <<ClassInstance(T_MParam, <<Leaf("MParam", <<"a">>)>>)>>,
    <<ClassInstance(T_MParam, <<Leaf("MParam", <<>>)>>)>>,
    <<ClassInstance(T_MParam, <<Rec("MParam", <<Rec("TubeZ", <<Leaf("Value", <<"1">>)>>)>>)>>)>>,
    <<ClassInstance(T_MParam, <<Rec("MParam", <<Rec("Atmosphere", <<Leaf("Value", <<"1">>)>>)>>)>>)>> }

IrregularElements ==
  { ClassInstance(T_SingleElement, <<Leaf("Element", <<"a">>)>>),
    ClassInstance(T_SingleElement, <<Leaf("Element", <<>>)>>),
    ClassInstance(T_SingleElement, <<Rec("Element", <<Rec("Z", <<Leaf("Value", <<"1">>)>>)>>)>>) }

IrregularLayers ==
  { ClassInstance(T_SingleLayer, <<Leaf("Layer", <<"a">>)>>),
    Layer(<<Rec("Element_0", <<Rec("GlobalElementIndex", <<Leaf("Value", <<"0">>)>>)>>)>>) }

IrregularDocuments ==
  { Document(<<InfoSection>>, mparam, <<>>, <<ElementH>>, <<Layer0>>) : mparam \in IrregularMParams }
  \cup { Document(<<InfoSection>>, <<>>, <<>>, <<ElementH, e>>, <<Layer0>>) : e \in IrregularElements }
  \cup { Document(<<InfoSection>>, <<>>, <<>>, <<ElementH>>, <<Layer0, l>>) : l \in IrregularLayers }

\* a registry entry without ElementSymbol that carries lines
OtherDocuments ==
  { Document(<<InfoSection>>, <<>>, <<>>, <<ElementNoZ, ElementU>>, <<l, LayerTwo>>) :
      l \in {Layer0, LayerEmpty} }

Documents ==
  SectionDocuments \cup RegistryDocuments \cup IrregularDocuments \cup OtherDocuments

---------------------------------------------------------------------------
(* parse_xadf as a state machine: one action per statement group *)

Idle == <<>>

Init ==
  /\ root \in Documents
  /\ pc = "info"
  /\ data = <<>>
  /\ element_lookup = <<>>
  /\ layers = <<>>
  /\ idx = 1
  /\ err = ""
  /\ tree = Idle /\ flat = Idle /\ used = Idle /\ names = Idle

Others == <<tree, flat, used, names>>

\* data[k] = v
Assign(d, k, v) == (k :> v) @@ d

\* a variant of ParseInfo: Info is an empty record when no subtree is found
ParseInfoDefaulted ==
  /\ pc = "info"
  /\ data' = IF findall(root, T_Info) # <<>>
             THEN Assign(data, "Info", DictV(element_to_dict(findall(root, T_Info)[1])))
             ELSE Assign(data, "Info", DictV(<<>>))
  /\ pc' = "mparam"
  /\ UNCHANGED <<root, element_lookup, layers, idx, err, Others>>

\* lines 37-40
ParseInfo ==
  /\ pc = "info"
  /\ data' = IF findall(root, T_Info) # <<>>
             THEN Assign(data, "Info", DictV(element_to_dict(findall(root, T_Info)[1])))
             ELSE data
  /\ pc' = "mparam"
  /\ UNCHANGED <<root, element_lookup, layers, idx, err, Others>>

\* lines 43-55
ParseMParam ==
  /\ pc = "mparam"
  /\ LET r == MeasurementParameters(findall(root, T_MParam))
     IN IF r.err # ""
        THEN pc' = "raised" /\ err' = r.err /\ data' = data
        ELSE pc' = "calc" /\ err' = err /\ data' = Assign(data, "MeasurementParameters", r.val)
  /\ UNCHANGED <<root, element_lookup, layers, idx, Others>>

\* lines 58-60
ParseCalc ==
  /\ pc = "calc"
  /\ data' = IF findall(root, T_CalcParam) # <<>>
             THEN Assign(data, "CalculationParameters",
                         CalculationParameters(findall(root, T_CalcParam)[1]))
             ELSE data
  /\ pc' = "elements"
  /\ UNCHANGED <<root, element_lookup, layers, idx, err, Others>>

\* lines 64-87, one turn of the loop
ParseElement ==
  /\ pc = "elements"
  /\ idx <= Len(findall(root, T_SingleElement))
  /\ LET r == ElementEntry(findall(root, T_SingleElement)[idx])
     IN IF r.err # ""
        THEN pc' = "raised" /\ err' = r.err /\ UNCHANGED <<element_lookup, idx>>
        ELSE /\ element_lookup' = Append(element_lookup, r.val)
             /\ idx' = idx + 1
             /\ UNCHANGED <<pc, err>>
  /\ UNCHANGED <<root, data, layers, Others>>

\* line 89, after the loop
StoreElements ==
  /\ pc = "elements"
  /\ idx > Len(findall(root, T_SingleElement))
  /\ data' = Assign(data, "Elements", element_lookup)
  /\ pc' = "layers"
  /\ idx' = 1
  /\ UNCHANGED <<root, element_lookup, layers, err, Others>>

\* a variant of ParseLayer: Index numbers the entries emitted, not the subtrees
ParseLayerRenumbered ==
  /\ pc = "layers"
  /\ idx <= Len(findall(root, T_SingleLayer))
  /\ LET r == LayerEntry(findall(root, T_SingleLayer)[idx], Len(layers) + 1, element_lookup)
     IN IF r.err # ""
        THEN pc' = "raised" /\ err' = r.err /\ UNCHANGED <<layers, idx>>
        ELSE /\ layers' = IF r.skip THEN layers ELSE Append(layers, r.val)
             /\ idx' = idx + 1
             /\ UNCHANGED <<pc, err>>
  /\ UNCHANGED <<root, data, element_lookup, Others>>

\* lines 93-125, one turn of the loop
ParseLayer ==
  /\ pc = "layers"
  /\ idx <= Len(findall(root, T_SingleLayer))
  /\ LET r == LayerEntry(findall(root, T_SingleLayer)[idx], idx, element_lookup)
     IN IF r.err # ""
        THEN pc' = "raised" /\ err' = r.err /\ UNCHANGED <<layers, idx>>
        ELSE /\ layers' = IF r.skip THEN layers ELSE Append(layers, r.val)
             /\ idx' = idx + 1
             /\ UNCHANGED <<pc, err>>
  /\ UNCHANGED <<root, data, element_lookup, Others>>

\* lines 127-128
Return ==
  /\ pc = "layers"
  /\ idx > Len(findall(root, T_SingleLayer))
  /\ data' = Assign(data, "Layers", layers)
  /\ pc' = "done"
  /\ UNCHANGED <<root, element_lookup, layers, idx, err, Others>>

Next ==
  \/ ParseInfo
  \/ ParseMParam
  \/ ParseCalc
  \/ ParseElement
  \/ StoreElements
  \/ ParseLayer
  \/ Return

Spec == Init /\ [][Next]_vars

---------------------------------------------------------------------------
(* element_to_dict on trees with wrapper nodes *)

MaxWrappers == 2

\* a tree's wrapper nodes
RECURSIVE Wrappers(_)
RECURSIVE WrappersOfKids(_, _)
WrappersOfKids(kids, i) ==
  IF i > Len(kids) THEN 0 ELSE Wrappers(kids[i]) + WrappersOfKids(kids, i + 1)
Wrappers(n) == (IF n.tag = "ClassInstance" THEN 1 ELSE 0) + WrappersOfKids(n.kids, 1)

\* the tree with every ClassInstance node removed and its children put in its place
RECURSIVE Unwrapped(_)
RECURSIVE UnwrappedKids(_, _)
UnwrappedKids(kids, i) ==
  IF i > Len(kids) THEN <<>>
  ELSE (IF kids[i].tag = "ClassInstance"
        THEN UnwrappedKids(kids[i].kids, 1)
        ELSE <<Unwrapped(kids[i])>>) \o UnwrappedKids(kids, i + 1)
Unwrapped(n) == [n EXCEPT !.kids = UnwrappedKids(n.kids, 1)]

FlattenChildren ==
  { Leaf("A", <<" ", "x">>), Leaf("B", <<"y">>), Leaf("C", <<>>),
    Rec("A", <<Leaf("B", <<"x">>)>>) }

InitFlatten ==
  /\ tree \in {Rec("R", kids) : kids \in SeqsUpTo(FlattenChildren, 2) \ {<<>>}}
  /\ flat = <<>>
  /\ pc = "build"
  /\ root = Idle /\ data = Idle /\ element_lookup = Idle /\ layers = Idle
  /\ idx = 0 /\ err = "" /\ used = Idle /\ names = Idle

NotFlatten == <<root, data, element_lookup, layers, idx, err, used, names>>

\* one child of the root is put inside a new wrapper node
WrapChild ==
  /\ pc = "build"
  /\ Wrappers(tree) < MaxWrappers
  /\ \E i \in 1..Len(tree.kids) :
       tree' = [tree EXCEPT !.kids[i] = ClassInstance("", <<@>>)]
  /\ UNCHANGED <<flat, pc, NotFlatten>>

\* all the children of the root are put inside one new wrapper node
WrapChildren ==
  /\ pc = "build"
  /\ Wrappers(tree) < MaxWrappers
  /\ tree' = [tree EXCEPT !.kids = <<ClassInstance("", @)>>]
  /\ UNCHANGED <<flat, pc, NotFlatten>>

\* element_to_dict(tree)
Flatten ==
  /\ pc \in {"build", "unwrapped"}
  /\ flat' = Append(flat, DictV(element_to_dict(tree)))
  /\ pc' = IF pc = "build" THEN "flattened" ELSE "compared"
  /\ UNCHANGED <<tree, NotFlatten>>

\* the same tree without its wrapper nodes, to be flattened next
RemoveWrappers ==
  /\ pc = "flattened"
  /\ tree' = Unwrapped(tree)
  /\ pc' = "unwrapped"
  /\ UNCHANGED <<flat, NotFlatten>>

NextFlatten == WrapChild \/ WrapChildren \/ Flatten \/ RemoveWrappers

SpecFlatten == InitFlatten /\ [][NextFlatten]_vars

---------------------------------------------------------------------------
(* translate_used_lines on its own *)

MaxLen == 5

LineChars == {"3", "9", "x", "-", ",", " "}

\* s: absent (None), a text of at most MaxLen characters, or the record
\* that a UsedLines node with children flattens to
LineInputs ==
  {NoneV, DictV(<<[key |-> "Value", val |-> StrV(<<"3">>)]>>)}
  \cup {StrV(t) : t \in SeqsUpTo(LineChars, MaxLen)}

InitLines ==
  /\ used \in LineInputs
  /\ names = Idle
  /\ pc = "call"
  /\ root = Idle /\ data = Idle /\ element_lookup = Idle /\ layers = Idle
  /\ idx = 0 /\ err = "" /\ tree = Idle /\ flat = Idle

Translate ==
  /\ pc = "call"
  /\ names' = translate_used_lines(used)
  /\ pc' = "returned"
  /\ UNCHANGED <<used, root, data, element_lookup, layers, idx, err, tree, flat>>

NextLines == Translate

SpecLines == InitLines /\ [][NextLines]_vars

---------------------------------------------------------------------------
(* What the properties below read from the document *)

ElementSubtrees == findall(root, T_SingleElement)
LayerSubtrees == findall(root, T_SingleLayer)

\* next(iter(X.values())) if X else {}, X the flattening of a matched subtree
BodyOf(sub) ==
  IF element_to_dict(sub) # <<>> THEN element_to_dict(sub)[1].val ELSE DictV(<<>>)

\* the element references of a layer body, in the order of its keys
RefsOf(d) == SelectSeq(d.items, LAMBDA it : StartsWithElement_(it.key) /\ IsDict(it.val))

\* the references of the subtree a layer entry was built from
SourceRefs(entry) == RefsOf(BodyOf(LayerSubtrees[entry.Index]))

IndexOf(ref) == Get(ref.val.items, "GlobalElementIndex", NoneV)

IsDigitString(gi) == gi.kind = "str" /\ IsDigit(gi.text)

\* a digit string k with 0 <= k < len(Elements)
ValidIndex(gi) == IsDigitString(gi) /\ Decimal(gi.text) < Len(element_lookup)

\* the registry entry a valid index names
Resolved(gi) == element_lookup[Decimal(gi.text) + 1]

\* the one-based positions of the layer subtrees that are not skipped
Emitted == {p \in 1..Len(LayerSubtrees) : Truthy(BodyOf(LayerSubtrees[p]))}

IndexSet == {layers[i].Index : i \in 1..Len(layers)}

LayerSites == {"d.get", "gi.isdigit", "ei.get"}

\* the model returned is `data`, whose lists are the ones built up
Returned ==
  /\ pc = "done"
  /\ data["Elements"] = element_lookup
  /\ data["Layers"] = layers

---------------------------------------------------------------------------
(* Layer element references *)

\* C1: a reference whose GlobalElementIndex is missing, not a digit string, or
\* a digit string >= len(Elements) is merged with Symbol "?" and Lines [], and
\* parse_xadf does not raise on it.
C1_GracefulDegradation ==
  /\ ~(pc = "raised" /\ err = "ei.get"
       /\ \E j \in 1..Len(RefsOf(BodyOf(LayerSubtrees[idx]))) :
            LET gi == IndexOf(RefsOf(BodyOf(LayerSubtrees[idx]))[j])
            IN IsDigitString(gi) /\ ~ValidIndex(gi))
  /\ \A i \in 1..Len(layers) : \A j \in 1..Len(layers[i].Elements) :
       LET gi == IndexOf(SourceRefs(layers[i])[j])
       IN (gi.kind \in {"none", "str"} /\ ~ValidIndex(gi))
          => /\ layers[i].Elements[j].Symbol = StrV(Placeholder)
             /\ layers[i].Elements[j].Lines = ListV(<<>>)

\* C2: a reference with a valid index k takes its Symbol from Elements[k] ("?"
\* when that entry has no ElementSymbol), Elements[k] being the entry built
\* from the k-th matched SingleElement subtree, empty ones counted; Conc is the
\* reference's own StartConcentration ("?" when it has none).
C2_IndexIntegrity ==
  /\ \A k \in 1..Len(element_lookup) :
       element_lookup[k] = ElementEntry(ElementSubtrees[k]).val
  /\ pc \in {"layers", "done"} => Len(element_lookup) = Len(ElementSubtrees)
  /\ pc = "done" => Returned
  /\ \A i \in 1..Len(layers) :
       /\ Len(layers[i].Elements) = Len(SourceRefs(layers[i]))
       /\ \A j \in 1..Len(layers[i].Elements) :
            LET ref == SourceRefs(layers[i])[j]
            IN /\ layers[i].Elements[j].Conc
                    = Get(ref.val.items, "StartConcentration", StrV(Placeholder))
               /\ ValidIndex(IndexOf(ref))
                    => layers[i].Elements[j].Symbol
                         = Get(Resolved(IndexOf(ref)).items, "ElementSymbol", StrV(Placeholder))

\* a returned model whose registry starts with an entry built from an empty
\* subtree, and a reference with index "01" resolved to the second entry, U
C2_Witness ==
  /\ Returned
  /\ Len(element_lookup) = 2 /\ element_lookup[1] = DictV(<<>>)
  /\ \E i \in 1..Len(layers) : \E j \in 1..Len(layers[i].Elements) :
       /\ IndexOf(SourceRefs(layers[i])[j]) = StrV(<<"0", "1">>)
       /\ layers[i].Elements[j].Symbol = StrV(<<"U">>)
       /\ layers[i].Elements[j].Conc = StrV(<<"5">>)

\* C10 as stated: Lines are the EmissionLines of the first value of the
\* resolved entry that carries them, [] when none does.
C10_FirstLines ==
  \A i \in 1..Len(layers) : \A j \in 1..Len(layers[i].Elements) :
    LET gi == IndexOf(SourceRefs(layers[i])[j])
    IN ValidIndex(gi) =>
         layers[i].Elements[j].Lines =
           IF Carriers(Resolved(gi).items, "EmissionLines") = {} THEN ListV(<<>>)
           ELSE Get(Resolved(gi).items[Min(Carriers(Resolved(gi).items, "EmissionLines"))].val.items,
                    "EmissionLines", NoneV)

\* C10 amended: Lines are the EmissionLines of the last value of the resolved
\* entry that carries them, [] when none does.
C10_LastLines ==
  \A i \in 1..Len(layers) : \A j \in 1..Len(layers[i].Elements) :
    LET gi == IndexOf(SourceRefs(layers[i])[j])
    IN ValidIndex(gi) =>
         layers[i].Elements[j].Lines =
           IF Carriers(Resolved(gi).items, "EmissionLines") = {} THEN ListV(<<>>)
           ELSE Get(Resolved(gi).items[Max(Carriers(Resolved(gi).items, "EmissionLines"))].val.items,
                    "EmissionLines", NoneV)

\* a returned reference resolved to an entry with two line records, whose
\* Lines are those of the second record
C10_Witness ==
  /\ Returned
  /\ \E i \in 1..Len(layers) : \E j \in 1..Len(layers[i].Elements) :
       LET gi == IndexOf(SourceRefs(layers[i])[j])
       IN /\ ValidIndex(gi)
          /\ Cardinality(Carriers(Resolved(gi).items, "EmissionLines")) = 2
          /\ layers[i].Elements[j].Lines = ListV(<<LineName(<<"9", "9">>)>>)

---------------------------------------------------------------------------
(* Layers *)

\* C3 as stated: Layers[i].Index = i + 1 for every zero-based position i.
C3_IndexIsListPosition ==
  pc = "done" => \A i \in 1..Len(data["Layers"]) : data["Layers"][i].Index = i

\* C3 amended: Layers[i].Index is the one-based position of the entry's subtree
\* among all matched SingleLayer subtrees, skipped ones counted: the values are
\* strictly increasing, and Index exceeds the entry's one-based list position
\* by the number of subtrees skipped before it.
C3_IndexIsDocumentPosition ==
  LET emitted == Emitted
      subtrees == LayerSubtrees
  IN /\ pc = "done" => Returned
     /\ \A i \in 1..Len(layers) :
          /\ layers[i].Index \in 1..Len(subtrees)
          /\ layers[i].Index - i = Cardinality((1..layers[i].Index) \ emitted)
          /\ layers[i].Density_gcm3 = Density(BodyOf(subtrees[layers[i].Index]).items)
          /\ \A h \in 1..(i - 1) : layers[h].Index < layers[i].Index

\* a returned model whose first entry has Index 2
C3_Witness == Returned /\ Len(layers) >= 1 /\ layers[1].Index = 2

\* C4 as stated: exactly the subtrees whose flattening is an empty record
\* contribute no entry.
C4_OnlyEmptyFlatteningSkipped ==
  pc = "done" =>
    IndexSet = {p \in 1..Len(LayerSubtrees) : element_to_dict(LayerSubtrees[p]) # <<>>}

\* C4 amended: a subtree contributes no entry, and does not abort the parse,
\* when its flattening is an empty record or the first value of its flattening
\* is empty (None, "" or {}); every other subtree is emitted, in document order.
C4_SkipEmptyLayers ==
  LET emitted == Emitted
      indexes == IndexSet
      subtrees == LayerSubtrees
  IN /\ indexes \subseteq emitted
     /\ \A p \in indexes : element_to_dict(subtrees[p]) # <<>>
     /\ pc = "layers" => indexes = emitted \cap (1..(idx - 1))
     /\ pc = "done" => Returned /\ indexes = emitted
     /\ (pc = "raised" /\ err \in LayerSites) => idx \in emitted
     /\ \A i \in 1..Len(layers) : \A h \in 1..(i - 1) : layers[h].Index < layers[i].Index

\* a returned model with one entry, the second subtree's, from a document
\* whose first layer subtree flattens to an empty record
C4_Witness ==
  /\ Returned
  /\ Len(LayerSubtrees) = 2
  /\ element_to_dict(LayerSubtrees[1]) = <<>>
  /\ IndexSet = {2}

---------------------------------------------------------------------------
(* Sections *)

\* C7: parse_xadf never raises.
C7_NeverRaises == pc # "raised"

AllFields == {"Info", "MeasurementParameters", "CalculationParameters", "Elements", "Layers"}

SourceMParam == Get(element_to_dict(findall(root, T_MParam)[1]), "MParam", DictV(<<>>))

SourceTubeZ == Get(SourceMParam.items, "TubeZ", NoneV)

TubeElement(m) == Get(m.items, "TubeElement", NoneV)

\* C9 as stated: TubeElement is the table's symbol when TubeZ is a digit string
\* in 1..92; otherwise (missing, not a digit string, or a digit string that
\* does not resolve) the record is given no TubeElement key.
C9_UnresolvedLeftUndecorated ==
  (pc = "done" /\ findall(root, T_MParam) # <<>> /\ SourceTubeZ.kind \in {"none", "str"}) =>
    IF IsDigitString(SourceTubeZ) /\ Decimal(SourceTubeZ.text) \in 1..Len(ELEMENTS)
    THEN TubeElement(data["MeasurementParameters"]) = StrV(ELEMENTS[Decimal(SourceTubeZ.text)])
    ELSE HasKey(data["MeasurementParameters"].items, "TubeElement")
           <=> HasKey(SourceMParam.items, "TubeElement")

\* C9 amended: for a TubeZ that is text or missing, TubeElement is the table's
\* symbol when TubeZ is a digit string in 1..92 and the placeholder "?" when it
\* is a digit string that does not resolve ("0", "93"); when TubeZ is missing,
\* empty or not a digit string the enrichment adds nothing: the record has a
\* TubeElement only if the MParam subtree itself has one.
C9_TubeElement ==
  (pc = "done" /\ findall(root, T_MParam) # <<>> /\ SourceTubeZ.kind \in {"none", "str"}) =>
    /\ IsDigitString(SourceTubeZ) /\ Decimal(SourceTubeZ.text) \in 1..Len(ELEMENTS)
         => TubeElement(data["MeasurementParameters"]) = StrV(ELEMENTS[Decimal(SourceTubeZ.text)])
    /\ SourceTubeZ = StrV(<<"1">>) => TubeElement(data["MeasurementParameters"]) = StrV(<<"H">>)
    /\ SourceTubeZ = StrV(<<"9", "2">>) => TubeElement(data["MeasurementParameters"]) = StrV(<<"U">>)
    /\ IsDigitString(SourceTubeZ) /\ Decimal(SourceTubeZ.text) \notin 1..Len(ELEMENTS)
         => TubeElement(data["MeasurementParameters"]) = StrV(Placeholder)
    /\ ~IsDigitString(SourceTubeZ)
         => /\ TubeElement(data["MeasurementParameters"]) = TubeElement(SourceMParam)
            /\ HasKey(data["MeasurementParameters"].items, "TubeElement")
                 <=> HasKey(SourceMParam.items, "TubeElement")

\* a returned model whose TubeZ "93" got the placeholder as TubeElement
C9_Witness ==
  /\ pc = "done" /\ findall(root, T_MParam) # <<>>
  /\ SourceTubeZ = StrV(<<"9", "3">>)
  /\ TubeElement(data["MeasurementParameters"]) = StrV(Placeholder)

---------------------------------------------------------------------------
(* element_to_dict *)

\* whether a flattened value holds the key k at any depth
RECURSIVE HoldsKey(_, _)
HoldsKey(v, k) ==
  \E i \in 1..Len(v.items) : v.items[i].key = k \/ HoldsKey(v.items[i].val, k)

\* C5: flattening a tree gives what flattening it without its ClassInstance
\* nodes gives, and the wrapper tag is never a key.
C5_WrapperTransparency ==
  /\ pc = "compared" => flat[1] = flat[2]
  /\ \A i \in 1..Len(flat) : ~HoldsKey(flat[i], "ClassInstance")

---------------------------------------------------------------------------
(* translate_used_lines *)

\* the tokens that are not blank
Tokens(s) == SelectSeq(Split(s.text, ","), LAMBDA x : Strip(x) # <<>>)

\* C6: [] for an empty or absent s; when every non-blank token is an integer,
\* one name per non-blank token in input order, the table's name for a mapped
\* code and "Line" followed by the token as written for an unmapped one; []
\* when some non-blank token is not an integer; never an error.
C6_LineCodeTranslation ==
  pc = "returned" =>
    /\ ~Truthy(used) => names = <<>>
    /\ used.kind = "str" /\ (\A i \in 1..Len(Tokens(used)) : PyInt(Tokens(used)[i]).ok)
         => /\ Len(names) = Len(Tokens(used))
            /\ \A i \in 1..Len(names) :
                 names[i] = IF PyInt(Tokens(used)[i]).val \in DOMAIN LINE_MAP
                            THEN LINE_MAP[PyInt(Tokens(used)[i]).val]
                            ELSE <<"L", "i", "n", "e">> \o Tokens(used)[i]
    /\ used.kind = "str" /\ (\E i \in 1..Len(Tokens(used)) : ~PyInt(Tokens(used)[i]).ok)
         => names = <<>>
    /\ used = StrV(<<"3", ",", "9", ",", "9", "9">>)
         => names = <<LINE_MAP[3], LINE_MAP[9], <<"L", "i", "n", "e", "9", "9">>>>
    /\ used = StrV(<<"x", ",", "3">>) => names = <<>>
    /\ used = StrV(<<>>) => names = <<>>

\* "3,,99" translated to K_alpha1 and Line99
C6_Witness ==
  /\ pc = "returned"
  /\ used = StrV(<<"3", ",", ",", "9", "9">>)
  /\ names = <<LINE_MAP[3], <<"L", "i", "n", "e", "9", "9">>>>

=============================================================================
